---- MODULE Spec2Model ----
(***************************************************************************)
(* State-machine model of the webTomPom authoritative server               *)
(* (src/server.py): GameState, PongServer's session handling, message      *)
(* handling, the physics tick and the opponent controller.                 *)
(*                                                                         *)
(* Numbers.  The program computes in IEEE doubles.  The model uses fixed   *)
(* point with three decimals: a length, speed or coordinate v of the       *)
(* program is the integer 1000*v here, an angle is in milliradians, and    *)
(* cos/sin are evaluated by a truncated series on that grid.               *)
(*                                                                         *)
(* Atomicity.  Everything runs on one asyncio event loop, so a coroutine   *)
(* is only interleaved with others at an await that suspends.  The         *)
(* critical sections guarded by self.lock contain no await, hence the lock *)
(* is always free when a coroutine reaches `async with self.lock`, and     *)
(* acquiring a free asyncio.Lock does not suspend.  Each action below is   *)
(* one such uninterrupted run of code.                                     *)
(***************************************************************************)
EXTENDS Integers, FiniteSets, Sequences, TLC

VARIABLES
    clients,        \* PongServer.clients: set of connections
    roles,          \* PongServer.roles: connection -> role
    input_by_role,  \* PongServer.input_by_role: side -> -1, 0, 1
    ai_mode,        \* PongServer.ai_mode: "off", "on", "auto"
    ai_role,        \* PongServer.ai_role: "none", "left", "right"
    ai_target_y,    \* PongServer.ai_target_y: side -> {} (None) or {y}
    state,          \* PongServer.state: the GameState object
    pc,             \* each connection's ws_handler coroutine: "none" (not
                    \* running: not started, or ended), "register" (suspended
                    \* in register at the send of line 120), "open" (in the
                    \* receive loop of line 151)
    sent,           \* the role message delivered to each live connection
    ticks,          \* game-loop iterations still to be explored
    speeds,         \* speed commands (numeric delta) still to be explored
    lock,           \* PongServer.lock: "free", or the task holding it
    gl,             \* game_loop's position: "update" (about to call update,
                    \* line 431), "broadcast" (suspended in the gather of
                    \* line 425), "sleep" (suspended at line 434), "dead"
                    \* (ended by an exception)
    inbox,          \* the broadcast of the current game-loop iteration:
                    \* got, connection -> number of state messages delivered
                    \* to it; failed, the connections whose send raised
    llm             \* one call of _llm_move: the oracle's reply and the
                    \* outcome of the call

\* the variables of the game loop's phases and of the oracle call
loop == <<lock, gl, inbox, llm>>

vars == <<clients, roles, input_by_role, ai_mode, ai_role, ai_target_y,
          state, pc, sent, ticks, speeds, lock, gl, inbox, llm>>


-----------------------------------------------------------------------------
(* Program constants (src/server.py lines 16-30).                          *)

WIDTH == 640
HEIGHT == 480
PADDLE_W == 10
PADDLE_H == 60
BALL_SIZE == 16
PADDLE_SPEED == 10
TARGET_FPS == 60
WIN_SCORE == 5
\* SPIN_STRENGTH = 0.15, in milliradians
SPIN_STRENGTH == 150
\* AI_PADDLE_SPEED["medium"], the default difficulty profile
AI_PADDLE_SPEED == 8
\* math.pi, in milliradians
PI == 3142
\* the angle of the first ball, 0.47 rad
START_ANGLE == 470

-----------------------------------------------------------------------------
(* Bounds of the model.                                                    *)

\* number of connection identifiers
MaxConns == 3
\* speed commands in a row explored on their own (SpecSpeed)
SpeedCmds == 2
\* words in the text of an oracle reply
MaxWords == 2
\* connection identifiers used while the game loop's phases are explored
\* (SpecLoop)
MaxLoopConns == 2
\* connection identifiers used while the game loop's progress is explored
\* (SpecLive)
MaxLiveConns == 1
\* game-loop iterations explored phase by phase (SpecLoop, SpecLive)
LoopTicks == 1
\* game-loop iterations explored while sessions come and go (Spec)
MaxTicks == 1
\* game-loop iterations explored in a running match (SpecMatch)
MatchTicks == 2
\* ticks run from a state of SpecPaddle
PaddleTicks == 2
\* ticks run from a state of SpecBand
BandTicks == 2
\* speed commands with a numeric delta explored in a running match
MaxSpeeds == 1

Conns == 1..MaxConns
Sides == {"left", "right"}
Roles == {"left", "right", "spectator"}

-----------------------------------------------------------------------------
(* Fixed-point arithmetic.                                                 *)

Fix(n) == n * 1000

Max(a, b) == IF a >= b THEN a ELSE b
Min(a, b) == IF a <= b THEN a ELSE b
Abs(a) == IF a >= 0 THEN a ELSE -a

\* a / b rounded to the nearest integer, b > 0
RDiv(a, b) == IF a >= 0 THEN (a + b \div 2) \div b
                        ELSE -((-a + b \div 2) \div b)

\* product of two fixed-point numbers
FMul(a, b) == RDiv(a * b, 1000)

\* angle folded into (-PI, PI]
FoldAngle(a) ==
    LET m == (a + PI) % (2 * PI)
    IN  IF m = 0 THEN PI ELSE m - PI

\* sin on [-PI/2, PI/2]: x(1 - x^2/6 (1 - x^2/20 (1 - x^2/42 (1 - x^2/72))))
SinSeries(x) ==
    LET x2 == FMul(x, x)
        t4 == 1000 - RDiv(x2, 72)
        t3 == 1000 - RDiv(x2 * t4, 42000)
        t2 == 1000 - RDiv(x2 * t3, 20000)
        t1 == 1000 - RDiv(x2 * t2, 6000)
    IN  FMul(x, t1)

\* math.sin, argument in milliradians, result in thousandths
Sin(a) ==
    LET f == FoldAngle(a)
        h == PI \div 2
    IN  IF f > h THEN SinSeries(PI - f)
        ELSE IF f < -h THEN SinSeries(-PI - f)
        ELSE SinSeries(f)

\* math.cos
Cos(a) == Sin(a + PI \div 2)

RECURSIVE SqrtIter(_, _, _)
SqrtIter(n, lo, hi) ==
    IF lo >= hi THEN lo
    ELSE LET mid == (lo + hi + 1) \div 2
         IN  IF mid * mid <= n THEN SqrtIter(n, mid, hi)
             ELSE SqrtIter(n, lo, mid - 1)

\* math.hypot on fixed-point arguments (|vx|, |vy| <= 21213)
Hypot(vx, vy) == SqrtIter(vx * vx + vy * vy, 0, 30000)

-----------------------------------------------------------------------------
(* GameState (src/server.py lines 48-83).                                  *)

CentreY == Fix(HEIGHT - PADDLE_H) \div 2

\* GameState._new_ball
NewBall(angle, speed) ==
    [x   |-> Fix(WIDTH - BALL_SIZE) \div 2,
     y   |-> Fix(HEIGHT - BALL_SIZE) \div 2,
     vx  |-> FMul(speed, Cos(angle)),
     vy  |-> FMul(speed, Sin(angle)),
     hit |-> FALSE]

\* GameState.__init__
GameStateInit ==
    [score_left         |-> 0,
     score_right        |-> 0,
     game_time          |-> 0,
     base_speed         |-> 5000,
     rally_speed        |-> 5000,
     rally_speed_locked |-> FALSE,
     left               |-> [y |-> CentreY, move |-> 0],
     right              |-> [y |-> CentreY, move |-> 0],
     ball               |-> NewBall(START_ANGLE, 5000),
     game_over          |-> FALSE,
     winner             |-> "none"]

\* GameState.reset: the paddle objects are kept and only their y is assigned
GameStateReset(st) ==
    [score_left         |-> 0,
     score_right        |-> 0,
     game_time          |-> 0,
     base_speed         |-> 5000,
     rally_speed        |-> 5000,
     rally_speed_locked |-> FALSE,
     left               |-> [st.left EXCEPT !.y = CentreY],
     right              |-> [st.right EXCEPT !.y = CentreY],
     ball               |-> NewBall(START_ANGLE, 5000),
     game_over          |-> FALSE,
     winner             |-> "none"]

-----------------------------------------------------------------------------
(* Session handling (src/server.py lines 103-127, 169-188).                *)

\* the roles held in a role map: self.roles.values()
Held(rs) == {rs[c] : c \in DOMAIN rs}

\* _assign_role without its spectator branch
AssignRoleNoSpectator(rs) ==
    IF "left" \notin Held(rs) THEN "left" ELSE "right"

\* PongServer._assign_role: the role given to a new connection
AssignRole(rs) ==
    IF "left" \notin Held(rs) THEN "left"
    ELSE IF "right" \notin Held(rs) THEN "right"
    ELSE "spectator"

\* _update_ai_assignment with auto's test `len(humans) == 1` widened to
\* `len(humans) <= 1`
UpdateAiAssignmentAtMostOne(mode, rs) ==
    LET humans == Held(rs) \cap Sides
    IN  IF mode = "off" THEN "none"
        ELSE IF mode = "on"
             THEN IF "left" \notin humans THEN "left"
                  ELSE IF "right" \notin humans THEN "right"
                  ELSE "none"
        ELSE IF Cardinality(humans) <= 1
             THEN IF "left" \in humans THEN "right" ELSE "left"
        ELSE "none"

\* PongServer._update_ai_assignment: the new value of ai_role
UpdateAiAssignment(mode, rs) ==
    LET humans == Held(rs) \cap Sides
    IN  IF mode = "off" THEN "none"
        ELSE IF mode = "on"
             THEN IF "left" \notin humans THEN "left"
                  ELSE IF "right" \notin humans THEN "right"
                  ELSE "none"
        ELSE IF Cardinality(humans) = 1
             THEN IF "left" \in humans THEN "right" ELSE "left"
        ELSE "none"

\* dict.pop / dict insertion on the role map
WithRole(rs, ws, role) ==
    [c \in DOMAIN rs \cup {ws} |-> IF c = ws THEN role ELSE rs[c]]
\* dict.pop that hands the freed role to the waiting spectators
WithoutRolePromoting(rs, ws) ==
    [c \in DOMAIN rs \ {ws} |->
        IF ws \in DOMAIN rs /\ rs[c] = "spectator" THEN rs[ws] ELSE rs[c]]

WithoutRole(rs, ws) == [c \in DOMAIN rs \ {ws} |-> rs[c]]

\* unregister without lines 125-126
UnregisterInputKept(rs, inp, ws) == inp

\* PongServer.unregister, lines 124-126: the pending inputs after ws has left
UnregisterInput(rs, inp, ws) ==
    IF ws \in DOMAIN rs /\ rs[ws] \in Sides
    THEN [inp EXCEPT ![rs[ws]] = 0]
    ELSE inp

-----------------------------------------------------------------------------
(* Inbound messages (src/server.py lines 129-158).                         *)

\* A frame as ws_handler sees it.  shape: "malformed" (json.loads raises
\* JSONDecodeError), "nonobject" (valid JSON that is no dict: a list, a
\* number, a string, null) or "object".  delta.kind: "num" (JSON number),
\* "bool" (JSON true/false) or "other" (string, null, missing); delta.val is
\* the number in thousandths, a bool counting as Python does: True == 1.
NoDelta == [kind |-> "other", val |-> 0]
Frame(shape, type, up, down, delta) ==
    [shape |-> shape, type |-> type, up |-> up, down |-> down, delta |-> delta]

Deltas == {[kind |-> "num", val |-> 10000],
           [kind |-> "bool", val |-> 1000], NoDelta}

Frames ==
    {Frame("malformed", "none", FALSE, FALSE, NoDelta),
     Frame("nonobject", "none", FALSE, FALSE, NoDelta),
     Frame("object", "other", FALSE, FALSE, NoDelta),
     Frame("object", "reset", FALSE, FALSE, NoDelta)}
    \cup {Frame("object", "input", u, d, NoDelta) : u \in BOOLEAN, d \in BOOLEAN}
    \cup {Frame("object", "speed", FALSE, FALSE, dl) : dl \in Deltas}

\* line 135 with the "and not" tests dropped
InputMoveUpWins(up, down) ==
    IF up THEN -1 ELSE IF down THEN 1 ELSE 0

\* handle_message line 135
InputMove(up, down) ==
    IF up /\ ~down THEN -1 ELSE IF down /\ ~up THEN 1 ELSE 0

\* handle_message line 144: isinstance(delta, (int, float)); bool is an int
IsNumber(delta) == delta.kind \in {"num", "bool"}

\* PongServer._adjust_speed
\* _adjust_speed with `min(15.0, ...)` dropped from line 391
AdjustSpeedNoCeiling(st, delta) ==
    LET start_speed == IF st.rally_speed_locked THEN st.rally_speed
                       ELSE st.base_speed
        new_speed   == Max(1000, start_speed + delta)
        magnitude   == Hypot(st.ball.vx, st.ball.vy)
    IN  IF new_speed = start_speed THEN st
        ELSE [st EXCEPT
                !.rally_speed = new_speed,
                !.rally_speed_locked = TRUE,
                !.ball = IF magnitude > 0
                         THEN [@ EXCEPT !.vx = RDiv(@ * new_speed, magnitude),
                                        !.vy = RDiv(@ * new_speed, magnitude)]
                         ELSE @]

\* PongServer._adjust_speed: the match state after the command
AdjustSpeed(st, delta) ==
    LET start_speed == IF st.rally_speed_locked THEN st.rally_speed
                       ELSE st.base_speed
        new_speed   == Max(1000, Min(15000, start_speed + delta))
        magnitude   == Hypot(st.ball.vx, st.ball.vy)
    IN  IF new_speed = start_speed THEN st
        ELSE [st EXCEPT
                !.rally_speed = new_speed,
                !.rally_speed_locked = TRUE,
                !.ball = IF magnitude > 0
                         THEN [@ EXCEPT !.vx = RDiv(@ * new_speed, magnitude),
                                        !.vy = RDiv(@ * new_speed, magnitude)]
                         ELSE @]

\* handle_message lines 130-137: the pending inputs after the message
MessageInput(rs, inp, ws, msg) ==
    LET role == IF ws \in DOMAIN rs THEN rs[ws] ELSE "spectator"
    IN  IF msg.type = "input" /\ role \in Sides
        THEN [inp EXCEPT ![role] = InputMove(msg.up, msg.down)]
        ELSE inp

\* handle_message lines 130-146: the match state after the message
MessageState(rs, st, ws, msg) ==
    LET role == IF ws \in DOMAIN rs THEN rs[ws] ELSE "spectator"
    IN  IF msg.type = "input" /\ role \in Sides THEN st
        ELSE IF msg.type = "reset"
             THEN IF st.game_over THEN GameStateReset(st) ELSE st
        ELSE IF msg.type = "speed" /\ IsNumber(msg.delta)
             THEN AdjustSpeed(st, msg.delta.val)
        ELSE st

\* handle_message enters `async with self.lock` for the frame: lines 136,
\* 139 and 145
TakesLock(rs, ws, msg) ==
    LET role == IF ws \in DOMAIN rs THEN rs[ws] ELSE "spectator"
    IN  /\ msg.shape = "object"
        /\ \/ msg.type = "input" /\ role \in Sides
           \/ msg.type = "reset"
           \/ msg.type = "speed" /\ IsNumber(msg.delta)

\* the frame reaches _adjust_speed (lines 142-146)
IsSpeedCommand(msg) ==
    msg.shape = "object" /\ msg.type = "speed" /\ IsNumber(msg.delta)

\* ws_handler lines 151-158: does this frame raise out of the receive loop?
\* json.loads errors are caught (line 154); handle_message calls msg.get,
\* which a JSON value that is no dict does not have.
FrameRaises(msg) == msg.shape = "nonobject"

-----------------------------------------------------------------------------
(* The physics tick (src/server.py lines 160-167, 290-385).                *)

\* random.uniform(-pi/12, pi/12) of _score, in milliradians: both ends of
\* the interval
Jitters == {-262, 262}

ClampY(y) == Max(0, Min(Fix(HEIGHT - PADDLE_H), y))

\* PongServer._reflect_angle, arguments in thousandths, result in milliradians
ReflectAngle(ball_center_y, paddle_y, paddle_move) ==
    LET hit_pos      == Max(0, Min(1000, RDiv(ball_center_y - paddle_y, PADDLE_H)))
        angle_offset == RDiv((hit_pos - 500) * 2 * PI, 3000)
        spin         == -paddle_move * SPIN_STRENGTH
    IN  angle_offset + spin

\* update lines 300-324 with the step of lines 307 / 317 not limited to the
\* controller's paddle speed: the paddle jumps to its target
MovePaddleJump(p, side, inp, air, tgt) ==
    IF air = side
    THEN LET step == IF tgt[side] = {} THEN 0
                     ELSE (CHOOSE t \in tgt[side] : TRUE) - p.y
         IN  [y |-> ClampY(p.y + step), move |-> 0]
    ELSE [y |-> ClampY(p.y + inp[side] * Fix(PADDLE_SPEED)), move |-> inp[side]]

\* update lines 300-324 for one side: the paddle after its movement step
MovePaddle(p, side, inp, air, tgt) ==
    IF air = side
    THEN LET step == IF tgt[side] = {} THEN 0
                     ELSE Max(-Fix(AI_PADDLE_SPEED),
                              Min(Fix(AI_PADDLE_SPEED),
                                  (CHOOSE t \in tgt[side] : TRUE) - p.y))
         IN  [y |-> ClampY(p.y + step), move |-> 0]
    ELSE [y |-> ClampY(p.y + inp[side] * Fix(PADDLE_SPEED)), move |-> inp[side]]

\* _score with the point credited to the side that missed
ScoreWrongSide(st, side, jitter) ==
    LET s1 == IF side = "left"
              THEN [st EXCEPT !.score_left = @ + 1]
              ELSE [st EXCEPT !.score_right = @ + 1]
        s2 == IF s1.score_left >= WIN_SCORE
              THEN [s1 EXCEPT !.game_over = TRUE, !.winner = "left"]
              ELSE IF s1.score_right >= WIN_SCORE
              THEN [s1 EXCEPT !.game_over = TRUE, !.winner = "right"]
              ELSE s1
        base_angle == IF side = "left" THEN PI ELSE 0
    IN  IF ~s2.game_over
        THEN [s2 EXCEPT !.rally_speed_locked = FALSE,
                        !.rally_speed = s2.base_speed,
                        !.ball = NewBall(base_angle + jitter, s2.base_speed)]
        ELSE s2

\* _score with > for >= in lines 371 and 374
ScoreLateWin(st, side, jitter) ==
    LET s1 == IF side = "left"
              THEN [st EXCEPT !.score_right = @ + 1]
              ELSE [st EXCEPT !.score_left = @ + 1]
        s2 == IF s1.score_left > WIN_SCORE
              THEN [s1 EXCEPT !.game_over = TRUE, !.winner = "left"]
              ELSE IF s1.score_right > WIN_SCORE
              THEN [s1 EXCEPT !.game_over = TRUE, !.winner = "right"]
              ELSE s1
        base_angle == IF side = "left" THEN PI ELSE 0
    IN  IF ~s2.game_over
        THEN [s2 EXCEPT !.rally_speed_locked = FALSE,
                        !.rally_speed = s2.base_speed,
                        !.ball = NewBall(base_angle + jitter, s2.base_speed)]
        ELSE s2

\* _score with line 382, `self.state.rally_speed_locked = False`, and line
\* 383 left out
ScoreKeepsLock(st, side, jitter) ==
    LET s1 == IF side = "left"
              THEN [st EXCEPT !.score_right = @ + 1]
              ELSE [st EXCEPT !.score_left = @ + 1]
        s2 == IF s1.score_left >= WIN_SCORE
              THEN [s1 EXCEPT !.game_over = TRUE, !.winner = "left"]
              ELSE IF s1.score_right >= WIN_SCORE
              THEN [s1 EXCEPT !.game_over = TRUE, !.winner = "right"]
              ELSE s1
        base_angle == IF side = "left" THEN PI ELSE 0
    IN  IF ~s2.game_over
        THEN [s2 EXCEPT !.ball = NewBall(base_angle + jitter, s2.rally_speed)]
        ELSE s2

\* PongServer._score: st is the state at the call, side the side that missed
Score(st, side, jitter) ==
    LET s1 == IF side = "left"
              THEN [st EXCEPT !.score_right = @ + 1]
              ELSE [st EXCEPT !.score_left = @ + 1]
        s2 == IF s1.score_left >= WIN_SCORE
              THEN [s1 EXCEPT !.game_over = TRUE, !.winner = "left"]
              ELSE IF s1.score_right >= WIN_SCORE
              THEN [s1 EXCEPT !.game_over = TRUE, !.winner = "right"]
              ELSE s1
        base_angle == IF side = "left" THEN PI ELSE 0
    IN  IF ~s2.game_over
        THEN [s2 EXCEPT !.rally_speed_locked = FALSE,
                        !.rally_speed = s2.base_speed,
                        !.ball = NewBall(base_angle + jitter, s2.base_speed)]
        ELSE s2

\* the ball of update lines 326-331: integration and wall bounce
Integrate(ball) ==
    LET x1 == ball.x + ball.vx
        y1 == ball.y + ball.vy
    IN  [ball EXCEPT !.x = x1, !.y = y1,
                     !.vy = IF y1 <= 0 \/ y1 + Fix(BALL_SIZE) >= Fix(HEIGHT)
                            THEN -@ ELSE @]

\* update line 339 / 351: the ball's y overlaps the paddle
Overlaps(ball, paddle) ==
    /\ paddle.y - Fix(BALL_SIZE) <= ball.y
    /\ ball.y <= paddle.y + Fix(PADDLE_H)

\* update lines 341-347 / 353-359: the ball leaving a paddle
Bounce(st, ball, paddle, turn) ==
    LET angle == turn + ReflectAngle(ball.y + Fix(BALL_SIZE) \div 2,
                                     paddle.y, paddle.move)
    IN  [ball EXCEPT !.vx = FMul(st.rally_speed, Cos(angle)),
                     !.vy = FMul(st.rally_speed, Sin(angle)),
                     !.hit = TRUE]

\* update lines 333-363: paddle collision, miss, or free flight
Collide(st, jitter) ==
    LET ball    == st.ball
        left_x  == Fix(PADDLE_W)
        right_x == Fix(WIDTH - PADDLE_W - BALL_SIZE)
    IN  IF ball.x <= left_x
        THEN IF Overlaps(ball, st.left)
             THEN IF ~ball.hit
                  THEN [st EXCEPT !.ball = Bounce(st, ball, st.left, 0)]
                  ELSE st
             ELSE Score(st, "left", jitter)
        ELSE IF ball.x >= right_x
        THEN IF Overlaps(ball, st.right)
             THEN IF ~ball.hit
                  THEN [st EXCEPT !.ball = Bounce(st, ball, st.right, PI)]
                  ELSE st
             ELSE Score(st, "right", jitter)
        ELSE [st EXCEPT !.ball.hit = FALSE]

\* update with lines 297-298 left out: the rally speed is not brought along
\* with the base speed
AdvanceRallyStale(st, inp, air, tgt) ==
    LET t  == st.game_time + 1
        bs == Max(1000, 5000 + t)
    IN  [st EXCEPT
            !.game_time   = t,
            !.base_speed  = bs,
            !.left        = MovePaddle(@, "left", inp, air, tgt),
            !.right       = MovePaddle(@, "right", inp, air, tgt),
            !.ball        = Integrate(@)]

\* update with line 295, `self.state.game_time += 1`, left out
AdvanceClockStopped(st, inp, air, tgt) ==
    LET t  == st.game_time
        bs == Max(1000, 5000 + t)
    IN  [st EXCEPT
            !.game_time   = t,
            !.base_speed  = bs,
            !.rally_speed = IF st.rally_speed_locked THEN @ ELSE bs,
            !.left        = MovePaddle(@, "left", inp, air, tgt),
            !.right       = MovePaddle(@, "right", inp, air, tgt),
            !.ball        = Integrate(@)]

\* update lines 295-331: clock, speed ramp, paddles, ball integration
Advance(st, inp, air, tgt) ==
    LET t  == st.game_time + 1
        bs == Max(1000, 5000 + t)
    IN  [st EXCEPT
            !.game_time   = t,
            !.base_speed  = bs,
            !.rally_speed = IF st.rally_speed_locked THEN @ ELSE bs,
            !.left        = MovePaddle(@, "left", inp, air, tgt),
            !.right       = MovePaddle(@, "right", inp, air, tgt),
            !.ball        = Integrate(@)]

\* update without the game_over test of lines 292-293
UpdateAlways(st, inp, air, tgt, jitter) ==
    Collide(Advance(st, inp, air, tgt), jitter)

\* PongServer.update: the match state after one tick
Update(st, inp, air, tgt, jitter) ==
    IF st.game_over THEN st
    ELSE Collide(Advance(st, inp, air, tgt), jitter)

-----------------------------------------------------------------------------
(* The opponent controller (src/server.py lines 190-221, 273-288).         *)

\* PongServer._predict_ball_y on the ball of the snapshot
PredictBallY(ball, target_x) ==
    LET dx     == target_x - ball.x
        period == 2 * Fix(HEIGHT - BALL_SIZE)
    IN  IF ball.vx = 0 THEN ball.y
        ELSE IF (dx > 0) # (ball.vx > 0) \/ dx = 0 THEN ball.y
        ELSE LET slope == RDiv(Abs(ball.vy) * 1000, Abs(ball.vx))
                 rise  == slope * (Abs(dx) \div 1000)
                          + RDiv(slope * (Abs(dx) % 1000), 1000)
                 projected == IF ball.vy >= 0 THEN ball.y + rise
                              ELSE ball.y - rise
                 y == projected % period
             IN  IF y > Fix(HEIGHT - BALL_SIZE) THEN period - y ELSE y

\* PongServer._ai_target_for
AiTargetFor(role, ball) ==
    LET paddle_x == IF role = "left" THEN Fix(PADDLE_W)
                    ELSE Fix(WIDTH - PADDLE_W - BALL_SIZE)
        moving_toward == IF role = "left" THEN ball.vx < 0 ELSE ball.vx > 0
        target_y == IF moving_toward
                    THEN PredictBallY(ball, paddle_x) - Fix(PADDLE_H) \div 2
                    ELSE CentreY
    IN  Max(0, Min(Fix(HEIGHT - PADDLE_H), target_y))

\* ai_loop without the game_over test of line 278
AiStepTargetAlways(st, air, tgt) ==
    IF air = "none" THEN tgt
    ELSE [tgt EXCEPT ![air] = {AiTargetFor(air, st.ball)}]

\* ai_loop lines 276-288: the controller targets after one step
AiStepTarget(st, air, tgt) ==
    IF air = "none" \/ st.game_over THEN tgt
    ELSE [tgt EXCEPT ![air] = {AiTargetFor(air, st.ball)}]

-----------------------------------------------------------------------------
(* The external decision oracle: PongServer._llm_move (lines 223-271).     *)
(* A reply is what requests.post, raise_for_status and response.json make   *)
(* of the HTTP exchange, and, for a JSON object, what its three keys hold.  *)

\* the words a reply text is made of; \b(up|down|stay)\b of line 263 matches
\* the first three, whatever their case and punctuation, and not the others
Words == {"UP", "Down.", "stay", "upward", "None"}

\* re.search(...).group(1).lower() on one word (lines 263, 266)
Token(word) ==
    CASE word = "UP"    -> "up"
      [] word = "Down." -> "down"
      [] word = "stay"  -> "stay"
      [] OTHER          -> "none"

\* the texts: sequences of at most MaxWords words
RECURSIVE TextsOfLength(_)
TextsOfLength(n) ==
    IF n = 0 THEN {<<>>}
    ELSE {Append(t, w) : t \in TextsOfLength(n - 1), w \in Words}

Texts == UNION {TextsOfLength(n) : n \in 0..MaxWords}

\* re.search on the text: the first word that is a token, or "none"
RECURSIVE FirstToken(_)
FirstToken(text) ==
    IF text = <<>> THEN "none"
    ELSE IF Token(Head(text)) # "none" THEN Token(Head(text))
    ELSE FirstToken(Tail(text))

\* exchange: "timeout" and "error" (requests.post raises), "status"
\*   (raise_for_status raises), "notjson" (response.json raises), "json"
\* kind of the JSON value: "number", "null", "string" and "list" (holding
\*   none of the three keys), "keystring" (the string "choices"), "object"
\* choices:  "absent", "empty" ([]), "notlist" (a number), "nomessage"
\*   ([{}]), "nocontent" ([{"message": {}}]), "content"
\* message:  "absent", "notobject" (a number), "nocontent" ({}), "content"
\* messages: "absent", "empty" ([]), "nocontent" ([{}]), "content"
\* text: the content string, wherever one is present
OracleReply(exchange, kind, choices, message, messages, text) ==
    [exchange |-> exchange, kind |-> kind, choices |-> choices,
     message |-> message, messages |-> messages, text |-> text]

Replies ==
    {OracleReply(x, "null", "absent", "absent", "absent", <<>>) :
        x \in {"timeout", "error", "status", "notjson"}}
    \cup {OracleReply("json", k, "absent", "absent", "absent", <<>>) :
            k \in {"number", "null", "string", "list", "keystring"}}
    \cup {OracleReply("json", "object", ch, m, ms, t) :
            ch \in {"absent", "empty", "notlist", "nomessage", "nocontent",
                    "content"},
            m \in {"absent", "notobject", "nocontent", "content"},
            ms \in {"absent", "empty", "nocontent", "content"},
            t \in Texts}

\* the outcome of a call: "pending", "raises", "none" (returns None), or
\* "move" with the value returned
Outcome(outcome, move) == [outcome |-> outcome, move |-> move]

\* lines 265-271: the return value for the content string
MoveOf(text) ==
    CASE FirstToken(text) = "up"   -> Outcome("move", -1)
      [] FirstToken(text) = "down" -> Outcome("move", 1)
      [] FirstToken(text) = "stay" -> Outcome("move", 0)
      [] OTHER                     -> Outcome("none", 0)

\* PongServer._llm_move, lines 246-271
LlmMove(reply) ==
    IF reply.exchange # "json" THEN Outcome("none", 0)            \* 250-251
    ELSE IF reply.kind \in {"number", "null"}
    THEN Outcome("raises", 0)        \* line 254: `in` on a non-container
    ELSE IF reply.kind = "keystring"
    THEN Outcome("raises", 0)        \* line 254: str indexed by a str
    ELSE IF reply.kind \in {"string", "list"}
    THEN MoveOf(<<>>)                \* content stays ""
    ELSE IF reply.choices \notin {"absent", "empty"}              \* 254-255
    THEN IF reply.choices = "content" THEN MoveOf(reply.text)
         ELSE Outcome("raises", 0)   \* TypeError or KeyError at line 255
    ELSE IF reply.message = "notobject"
    THEN Outcome("raises", 0)        \* line 256: `in` on a number
    ELSE IF reply.message = "content" THEN MoveOf(reply.text)     \* 256-257
    ELSE IF reply.messages \notin {"absent", "empty"}             \* 258-259
    THEN IF reply.messages = "content" THEN MoveOf(reply.text)
         ELSE Outcome("raises", 0)   \* KeyError at line 259
    ELSE MoveOf(<<>>)

\* nothing broadcast yet in this iteration
NoMail == [got |-> [c \in Conns |-> 0], failed |-> {}]

\* no call of _llm_move is under way
NoCall ==
    [reply |-> OracleReply("timeout", "null", "absent", "absent", "absent",
                           <<>>),
     result |-> Outcome("none", 0)]

-----------------------------------------------------------------------------
(* The server as a state machine.                                          *)

\* PongServer.__init__ (lines 87-101) with TOMPOM_AI unset: mode "auto"
Init ==
    /\ clients = {}
    /\ roles = <<>>
    /\ input_by_role = [s \in Sides |-> 0]
    /\ ai_mode = "auto"
    /\ ai_role = "none"
    /\ ai_target_y = [s \in Sides |-> {}]
    /\ state = GameStateInit
    /\ pc = [c \in Conns |-> "none"]
    /\ sent = [c \in Conns |-> "none"]
    /\ ticks = MaxTicks
    /\ speeds = 0
    /\ lock = "free"
    /\ gl = "update"
    /\ inbox = NoMail
    /\ llm = NoCall

\* An identifier is free when no handler runs for it and the server holds
\* no entry for it; a new connection gets the lowest free identifier.
IsFree(ws) == pc[ws] = "none" /\ ws \notin clients /\ ws \notin DOMAIN roles

\* ws_handler line 149 up to the await of register line 120
Connect(ws) ==
    /\ IsFree(ws)
    /\ \A c \in Conns : c < ws => ~IsFree(c)
    /\ clients' = clients \cup {ws}
    /\ roles' = WithRole(roles, ws, AssignRole(roles))
    /\ ai_role' = UpdateAiAssignment(ai_mode, roles')
    /\ pc' = [pc EXCEPT ![ws] = "register"]
    /\ sent' = [sent EXCEPT ![ws] = "none"]
    /\ UNCHANGED <<input_by_role, ai_mode, ai_target_y, state, ticks, speeds>>
    /\ UNCHANGED loop

\* register line 120 completes: the role message is delivered and the
\* handler enters its receive loop (line 151)
RoleSent(ws) ==
    /\ pc[ws] = "register"
    /\ pc' = [pc EXCEPT ![ws] = "open"]
    /\ sent' = [sent EXCEPT ![ws] = roles[ws]]
    /\ UNCHANGED <<clients, roles, input_by_role, ai_mode, ai_role,
                   ai_target_y, state, ticks, speeds>>
    /\ UNCHANGED loop

\* register line 120 raises (the peer is already gone): line 149 is outside
\* the try of ws_handler, so the exception ends the handler at once
RoleSendFail(ws) ==
    /\ pc[ws] = "register"
    /\ pc' = [pc EXCEPT ![ws] = "none"]
    /\ UNCHANGED <<clients, roles, input_by_role, ai_mode, ai_role,
                   ai_target_y, state, sent, ticks, speeds>>
    /\ UNCHANGED loop

\* PongServer.unregister (lines 122-127), run from the finally of ws_handler
Unregister(ws) ==
    /\ clients' = clients \ {ws}
    /\ roles' = WithoutRole(roles, ws)
    /\ input_by_role' = UnregisterInput(roles, input_by_role, ws)
    /\ ai_role' = UpdateAiAssignment(ai_mode, roles')
    /\ pc' = [pc EXCEPT ![ws] = "none"]
    /\ sent' = [sent EXCEPT ![ws] = "none"]

\* one iteration of the receive loop (lines 151-156), and lines 157-158 when
\* the frame makes handle_message raise
Receive(ws, frame) ==
    /\ pc[ws] = "open"
    /\ IsSpeedCommand(frame) => speeds > 0
    /\ TakesLock(roles, ws, frame) => lock = "free"
    /\ speeds' = IF IsSpeedCommand(frame) THEN speeds - 1 ELSE speeds
    /\ UNCHANGED loop
    /\ IF FrameRaises(frame)
       THEN /\ Unregister(ws)
            /\ UNCHANGED <<ai_mode, ai_target_y, state, ticks>>
       ELSE IF frame.shape = "malformed"
       THEN UNCHANGED <<clients, roles, input_by_role, ai_mode, ai_role,
                        ai_target_y, state, pc, sent, ticks>>
       ELSE /\ UNCHANGED <<clients, roles, ai_mode, ai_role, ai_target_y,
                           pc, sent, ticks>>
            /\ input_by_role' = MessageInput(roles, input_by_role, ws, frame)
            /\ state' = MessageState(roles, state, ws, frame)

\* the receive loop ends (the peer closed, or receiving failed): lines 157-158
Close(ws) ==
    /\ pc[ws] = "open"
    /\ Unregister(ws)
    /\ UNCHANGED <<ai_mode, ai_target_y, state, ticks, speeds>>
    /\ UNCHANGED loop

\* one call of update that drains the pending inputs: both slots are zero
\* after the tick
TickClearsInput(jitter) ==
    /\ ticks > 0
    /\ lock = "free"
    /\ ticks' = ticks - 1
    /\ state' = Update(state, input_by_role, ai_role, ai_target_y, jitter)
    /\ input_by_role' = [s \in Sides |-> 0]
    /\ UNCHANGED <<clients, roles, ai_mode, ai_role,
                   ai_target_y, pc, sent, speeds>>
    /\ UNCHANGED loop

\* game_loop line 431: one call of update
Tick(jitter) ==
    /\ ticks > 0
    /\ lock = "free"
    /\ ticks' = ticks - 1
    /\ state' = Update(state, input_by_role, ai_role, ai_target_y, jitter)
    /\ UNCHANGED <<clients, roles, input_by_role, ai_mode, ai_role,
                   ai_target_y, pc, sent, speeds>>
    /\ UNCHANGED loop

\* ai_loop lines 276-288: one pass of the controller loop
AiStep ==
    /\ lock = "free"
    /\ ai_target_y' = AiStepTarget(state, ai_role, ai_target_y)
    /\ UNCHANGED <<clients, roles, input_by_role, ai_mode, ai_role,
                   state, pc, sent, ticks, speeds>>
    /\ UNCHANGED loop

Next ==
    \/ \E ws \in Conns : Connect(ws)
    \/ \E ws \in Conns : RoleSent(ws)
    \/ \E ws \in Conns : RoleSendFail(ws)
    \/ \E ws \in Conns, frame \in Frames : Receive(ws, frame)
    \/ \E ws \in Conns : Close(ws)
    \/ \E jitter \in Jitters : Tick(jitter)
    \/ AiStep

Spec == Init /\ [][Next]_vars

\* The same server constructed with TOMPOM_AI=on (line 93); __init__ sets
\* ai_role to None (line 100) whatever the mode.
InitOn ==
    /\ clients = {}
    /\ roles = <<>>
    /\ input_by_role = [s \in Sides |-> 0]
    /\ ai_mode = "on"
    /\ ai_role = "none"
    /\ ai_target_y = [s \in Sides |-> {}]
    /\ state = GameStateInit
    /\ pc = [c \in Conns |-> "none"]
    /\ sent = [c \in Conns |-> "none"]
    /\ ticks = MaxTicks
    /\ speeds = 0
    /\ lock = "free"
    /\ gl = "update"
    /\ inbox = NoMail
    /\ llm = NoCall

SpecOn == InitOn /\ [][Next]_vars

-----------------------------------------------------------------------------
(* The game loop phase by phase (lines 427-434).  game_loop suspends in     *)
(* broadcast_state (the gather of line 425) and in the sleep of line 434;   *)
(* update (line 431) runs from lock acquisition to release without          *)
(* suspending.  Tick above is update alone; here the iteration is followed  *)
(* through its phases, with what each connection is sent.                   *)

LoopConns == 1..MaxLoopConns

\* an `async with self.lock` that left the lock with the task that took it
HeldBy(task) == task

\* `async with self.lock` (line 291) releases the lock when the block is
\* left, by return or by fall-through: the lock after `task` ran its block
Released(task) == "free"

\* a broadcast that sends in turn and gives up at the first send that raises
DeliveredBeforeFailure(cs, failed) ==
    {c \in cs : \A f \in failed : c < f}

\* gather(..., return_exceptions=True) (line 425) awaits every send and
\* returns the exceptions as results: the connections of `cs` that get the
\* message when the sends to `failed` raise
Delivered(cs, failed) == cs \ failed

\* game_loop with a gather that lets the first exception through
AfterBroadcastRaising(failed) == IF failed = {} THEN "sleep" ELSE "dead"

\* game_loop after broadcast_state returned (lines 432-434): no exception
\* reaches it, whichever sends failed
AfterBroadcast(failed) == "sleep"

\* the connections whose handler has ended but that are still in the client
\* set: their socket is closed, a send to them raises
Dead(cs) == {c \in cs : pc[c] = "none"}

\* game_loop line 431: update, from `async with self.lock` to its release
LoopUpdate(jitter) ==
    /\ gl = "update"
    /\ ticks > 0
    /\ lock = "free"
    /\ ticks' = ticks - 1
    /\ state' = Update(state, input_by_role, ai_role, ai_target_y, jitter)
    /\ lock' = Released("tick")
    /\ gl' = "broadcast"
    /\ UNCHANGED <<clients, roles, input_by_role, ai_mode, ai_role,
                   ai_target_y, pc, sent, speeds, inbox, llm>>

\* game_loop line 432: broadcast_state; the sends to `failed` raise
Broadcast(failed) ==
    /\ gl = "broadcast"
    /\ Dead(clients) \subseteq failed
    /\ inbox' = [got |-> [c \in Conns |->
                            IF c \in Delivered(clients, failed)
                            THEN inbox.got[c] + 1 ELSE inbox.got[c]],
                 failed |-> failed]
    /\ gl' = AfterBroadcast(failed)
    /\ UNCHANGED <<clients, roles, input_by_role, ai_mode, ai_role,
                   ai_target_y, state, pc, sent, ticks, speeds, lock, llm>>

\* game_loop line 434: the sleep ends and the next iteration begins
Wake ==
    /\ gl = "sleep"
    /\ gl' = "update"
    /\ inbox' = NoMail
    /\ UNCHANGED <<clients, roles, input_by_role, ai_mode, ai_role,
                   ai_target_y, state, pc, sent, ticks, speeds, lock, llm>>

\* the frames sent while the loop is followed: both kinds of input, reset,
\* a speed command, and a frame that ends the handler
LoopFrames ==
    {Frame("object", "input", FALSE, TRUE, NoDelta),
     Frame("object", "input", FALSE, FALSE, NoDelta),
     Frame("object", "reset", FALSE, FALSE, NoDelta),
     Frame("object", "speed", FALSE, FALSE, [kind |-> "num", val |-> 10000]),
     Frame("nonobject", "none", FALSE, FALSE, NoDelta)}

InitLoop ==
    /\ clients = {}
    /\ roles = <<>>
    /\ input_by_role = [s \in Sides |-> 0]
    /\ ai_mode = "auto"
    /\ ai_role = "none"
    /\ ai_target_y = [s \in Sides |-> {}]
    /\ state = GameStateInit
    /\ pc = [c \in Conns |-> "none"]
    /\ sent = [c \in Conns |-> "none"]
    /\ ticks = LoopTicks
    /\ speeds = 0
    /\ lock = "free"
    /\ gl = "update"
    /\ inbox = NoMail
    /\ llm = NoCall

NextLoop ==
    \/ \E ws \in LoopConns : Connect(ws)
    \/ \E ws \in LoopConns : RoleSent(ws)
    \/ \E ws \in LoopConns : RoleSendFail(ws)
    \/ \E ws \in LoopConns, frame \in LoopFrames : Receive(ws, frame)
    \/ \E ws \in LoopConns : Close(ws)
    \/ AiStep
    \/ \E jitter \in Jitters : LoopUpdate(jitter)
    \/ \E failed \in SUBSET clients : Broadcast(failed)
    \/ Wake

SpecLoop == InitLoop /\ [][NextLoop]_vars

\* The progress of the game loop, with speed commands among the messages.
LiveConns == 1..MaxLiveConns

InitLive ==
    /\ clients = {}
    /\ roles = <<>>
    /\ input_by_role = [s \in Sides |-> 0]
    /\ ai_mode = "auto"
    /\ ai_role = "none"
    /\ ai_target_y = [s \in Sides |-> {}]
    /\ state = GameStateInit
    /\ pc = [c \in Conns |-> "none"]
    /\ sent = [c \in Conns |-> "none"]
    /\ ticks = LoopTicks
    /\ speeds = MaxSpeeds
    /\ lock = "free"
    /\ gl = "update"
    /\ inbox = NoMail
    /\ llm = NoCall

NextLive ==
    \/ \E ws \in LiveConns : Connect(ws)
    \/ \E ws \in LiveConns : RoleSent(ws)
    \/ \E ws \in LiveConns : RoleSendFail(ws)
    \/ \E ws \in LiveConns, frame \in LoopFrames : Receive(ws, frame)
    \/ \E ws \in LiveConns : Close(ws)
    \/ AiStep
    \/ \E jitter \in Jitters : LoopUpdate(jitter)
    \/ \E failed \in SUBSET clients : Broadcast(failed)
    \/ Wake

\* The event loop is fair to the game loop: a ready coroutine is resumed,
\* the timer of the sleep fires, and every send of the gather ends, by
\* delivery or by an exception.
SpecLive ==
    /\ InitLive
    /\ [][NextLive]_vars
    /\ WF_vars(\E jitter \in Jitters : LoopUpdate(jitter))
    /\ WF_vars(\E failed \in SUBSET clients : Broadcast(failed))
    /\ WF_vars(Wake)

-----------------------------------------------------------------------------
(* One call of the oracle.  Nothing in the program calls _llm_move; it is   *)
(* explored on its own, for every reply, on a server whose controller       *)
(* targets hold values of earlier passes.                                   *)

OracleTargets ==
    {[left |-> {}, right |-> {}],
     [left |-> {}, right |-> {150000}],
     [left |-> {300000}, right |-> {}]}

InitOracle ==
    /\ clients = {}
    /\ roles = <<>>
    /\ input_by_role = [s \in Sides |-> 0]
    /\ ai_mode = "auto"
    /\ ai_role = "none"
    /\ ai_target_y \in OracleTargets
    /\ state = GameStateInit
    /\ pc = [c \in Conns |-> "none"]
    /\ sent = [c \in Conns |-> "none"]
    /\ ticks = 0
    /\ speeds = 0
    /\ lock = "free"
    /\ gl = "update"
    /\ inbox = NoMail
    /\ llm \in {[reply |-> r, result |-> Outcome("pending", 0)] : r \in Replies}

\* _llm_move runs from its request to its return or its exception; it
\* assigns nothing on the server
OracleCall ==
    /\ llm.result.outcome = "pending"
    /\ llm' = [llm EXCEPT !.result = LlmMove(llm.reply)]
    /\ UNCHANGED <<clients, roles, input_by_role, ai_mode, ai_role,
                   ai_target_y, state, pc, sent, ticks, speeds, lock, gl,
                   inbox>>

NextOracle == OracleCall

SpecOracle == InitOracle /\ [][NextOracle]_vars

-----------------------------------------------------------------------------
(* A match in progress.  The first score of a match is 68 ticks away from   *)
(* the constructed state and a match lasts hundreds of ticks, so the rules  *)
(* of play are explored from states of a running match: connection 1 plays  *)
(* left, connection 2 (when present) plays right, the clock stands at       *)
(* SnapTime, and the ball is one tick away from a collision plane.  The     *)
(* connections stay for the window explored; sessions that come and go are  *)
(* explored under Spec.                                                     *)

\* state.game_time of the running match: 50 seconds of play
SnapTime == 50 * TARGET_FPS

\* the scores of the running match: mid-match, and match point for both
SnapScores == {<<2, 1>>, <<4, 4>>}

\* the ball of the running match: about to reach the right plane (x >= 614)
\* or the left plane (x <= 10) at y = 200, where the paddle at the centre
\* (y = 210) reaches it if it stays or moves up and misses it if it moves down
SnapBalls ==
    {[x |-> 610000, y |-> 198000, vx |-> 7000, vy |-> 2000, hit |-> FALSE],
     [x |-> 14000, y |-> 198000, vx |-> -7000, vy |-> 2000, hit |-> FALSE]}

Snapshot(scores, ball) ==
    [GameStateInit EXCEPT
        !.score_left  = scores[1],
        !.score_right = scores[2],
        !.game_time   = SnapTime,
        !.base_speed  = Max(1000, 5000 + SnapTime),
        !.rally_speed = Max(1000, 5000 + SnapTime),
        !.ball        = ball]

Snapshots ==
    {Snapshot(sc, b) : sc \in SnapScores, b \in SnapBalls}

\* the frames that leave the connection open
MatchFrames == {frame \in Frames : ~FrameRaises(frame)}

InitMatch ==
    /\ clients \in {{1}, {1, 2}}
    /\ roles = [c \in clients |-> IF c = 1 THEN "left" ELSE "right"]
    /\ input_by_role = [s \in Sides |-> 0]
    /\ ai_mode = "auto"
    /\ ai_role = UpdateAiAssignment(ai_mode, roles)
    /\ ai_target_y = [s \in Sides |-> {}]
    /\ state \in Snapshots
    /\ pc = [c \in Conns |-> IF c \in clients THEN "open" ELSE "none"]
    /\ sent = [c \in Conns |-> IF c \in clients THEN roles[c] ELSE "none"]
    /\ ticks = MatchTicks
    /\ speeds = MaxSpeeds
    /\ lock = "free"
    /\ gl = "update"
    /\ inbox = NoMail
    /\ llm = NoCall

NextMatch ==
    \/ \E ws \in Conns, frame \in MatchFrames : Receive(ws, frame)
    \/ \E jitter \in Jitters : Tick(jitter)
    \/ AiStep

SpecMatch == InitMatch /\ [][NextMatch]_vars

-----------------------------------------------------------------------------
(* Speed commands on their own: every delta of SpeedDeltas, SpeedCmds in a  *)
(* row, against the states of the running match.                            *)

\* deltas that clamp at either end, leave the speed, and move it by less
\* than the clamp allows
SpeedDeltas == {-14000, -500, 0, 250, 10000, 14000}

SpeedFrames ==
    {Frame("object", "speed", FALSE, FALSE, [kind |-> "num", val |-> d]) :
        d \in SpeedDeltas}

InitSpeed ==
    /\ clients \in {{1}, {1, 2}}
    /\ roles = [c \in clients |-> IF c = 1 THEN "left" ELSE "right"]
    /\ input_by_role = [s \in Sides |-> 0]
    /\ ai_mode = "auto"
    /\ ai_role = UpdateAiAssignment(ai_mode, roles)
    /\ ai_target_y = [s \in Sides |-> {}]
    /\ state \in Snapshots
    /\ pc = [c \in Conns |-> IF c \in clients THEN "open" ELSE "none"]
    /\ sent = [c \in Conns |-> IF c \in clients THEN roles[c] ELSE "none"]
    /\ ticks = 0
    /\ speeds = SpeedCmds
    /\ lock = "free"
    /\ gl = "update"
    /\ inbox = NoMail
    /\ llm = NoCall

NextSpeed == \E ws \in Conns, frame \in SpeedFrames : Receive(ws, frame)

SpecSpeed == InitSpeed /\ [][NextSpeed]_vars

-----------------------------------------------------------------------------
(* Paddle movement: the running match with the paddles anywhere in their    *)
(* range, the court's edges included.  A side's paddle stands on a multiple *)
(* of PADDLE_SPEED below or above the centre while only a player has moved  *)
(* it, and anywhere once the controller has.  The players send inputs and   *)
(* may disconnect; the controller then takes the side a player has left.    *)

\* the top edge, 4 short of the centre, the bottom edge
PaddleYs == {0, CentreY - 4000, Fix(HEIGHT - PADDLE_H)}

PaddleSnapshots ==
    {[snap EXCEPT !.left.y = ly, !.right.y = ry] :
        snap \in Snapshots, ly \in PaddleYs, ry \in PaddleYs}

InitPaddle ==
    /\ clients \in {{1}, {1, 2}}
    /\ roles = [c \in clients |-> IF c = 1 THEN "left" ELSE "right"]
    /\ input_by_role = [s \in Sides |-> 0]
    /\ ai_mode = "auto"
    /\ ai_role = UpdateAiAssignment(ai_mode, roles)
    /\ ai_target_y = [s \in Sides |-> {}]
    /\ state \in PaddleSnapshots
    /\ pc = [c \in Conns |-> IF c \in clients THEN "open" ELSE "none"]
    /\ sent = [c \in Conns |-> IF c \in clients THEN roles[c] ELSE "none"]
    /\ ticks = PaddleTicks
    /\ speeds = 0
    /\ lock = "free"
    /\ gl = "update"
    /\ inbox = NoMail
    /\ llm = NoCall

NextPaddle ==
    \/ \E ws \in Conns, frame \in Frames :
          frame.shape = "object" /\ frame.type = "input" /\ Receive(ws, frame)
    \/ \E ws \in Conns : Close(ws)
    \/ \E jitter \in Jitters : Tick(jitter)
    \/ AiStep

SpecPaddle == InitPaddle /\ [][NextPaddle]_vars

-----------------------------------------------------------------------------
(* A contact at a paddle's corner: the running match with both players      *)
(* connected and the ball one tick away from a plane, level with the top    *)
(* corner of the paddle at the centre.  A paddle moving down meets it with  *)
(* its corner (hit position 0) and sends it off at 60 degrees plus spin, so *)
(* slowly across that the next tick finds it at or beyond the plane still.  *)

\* the ball about to reach the left plane (x <= 10) or the right plane
\* (x >= 614) at y = 205.8, within [204, 212], where the corner of a paddle
\* that moves down from the centre to y = 220 meets it
BandBalls ==
    {[x |-> 14000, y |-> 203000, vx |-> -7400, vy |-> 2800, hit |-> FALSE],
     [x |-> 610000, y |-> 203000, vx |-> 7400, vy |-> 2800, hit |-> FALSE]}

BandSnapshots ==
    {Snapshot(sc, b) : sc \in SnapScores, b \in BandBalls}

InitBand ==
    /\ clients = {1, 2}
    /\ roles = [c \in clients |-> IF c = 1 THEN "left" ELSE "right"]
    /\ input_by_role = [s \in Sides |-> 0]
    /\ ai_mode = "auto"
    /\ ai_role = UpdateAiAssignment(ai_mode, roles)
    /\ ai_target_y = [s \in Sides |-> {}]
    /\ state \in BandSnapshots
    /\ pc = [c \in Conns |-> IF c \in clients THEN "open" ELSE "none"]
    /\ sent = [c \in Conns |-> IF c \in clients THEN roles[c] ELSE "none"]
    /\ ticks = BandTicks
    /\ speeds = 0
    /\ lock = "free"
    /\ gl = "update"
    /\ inbox = NoMail
    /\ llm = NoCall

NextBand ==
    \/ \E ws \in Conns, frame \in Frames :
          frame.shape = "object" /\ frame.type = "input" /\ Receive(ws, frame)
    \/ \E jitter \in Jitters : Tick(jitter)

SpecBand == InitBand /\ [][NextBand]_vars

-----------------------------------------------------------------------------
(* Properties of session handling, checked under Spec.                     *)

HoldersOf(side) == {c \in DOMAIN roles : roles[c] = side}

\* C1: in every reachable state at most one connection holds role left and
\* at most one connection holds role right.
C1_RolesUnique ==
    \A side \in Sides : Cardinality(HoldersOf(side)) <= 1

\* C1 witness: both sides are held and a third connection is a spectator.
C1_Witness ==
    /\ HoldersOf("left") # {}
    /\ HoldersOf("right") # {}
    /\ HoldersOf("spectator") # {}

\* the role the rule "left if unclaimed, else right if unclaimed, else
\* spectator" gives against the role map rs
FirstUnclaimed(rs) ==
    IF \A c \in DOMAIN rs : rs[c] # "left" THEN "left"
    ELSE IF \A c \in DOMAIN rs : rs[c] # "right" THEN "right"
    ELSE "spectator"

\* C2: a connecting client is given left if no connection holds left,
\* otherwise right if no connection holds right, otherwise spectator (in the
\* role map and in the role message it is sent); and the role of a
\* connection never changes while it stays in the role map.
C2_RoleGivenAndKept ==
    [][\A c \in Conns :
          /\ (c \notin DOMAIN roles /\ c \in DOMAIN roles')
                => roles'[c] = FirstUnclaimed(roles)
          /\ (c \in DOMAIN roles /\ c \in DOMAIN roles')
                => roles'[c] = roles[c]
          /\ (sent[c] = "none" /\ sent'[c] # "none")
                => sent'[c] = roles[c]]_vars

\* C2 witness: left has been freed and a spectator is still a spectator.
C2_Witness ==
    /\ HoldersOf("left") = {}
    /\ \E c \in Conns : pc[c] = "open" /\ sent[c] = "spectator"
                        /\ roles[c] = "spectator"

\* C3: every connection whose handler has ended is in neither the role map
\* nor the client set.
C3_EndedHandlerUnregistered ==
    \A c \in Conns : pc[c] = "none" => (c \notin clients /\ c \notin DOMAIN roles)

\* C4: a side that no connection currently holds has pending input 0.
C4_FreeSideInputZero ==
    \A side \in Sides : HoldersOf(side) = {} => input_by_role[side] = 0

\* C4 witness: the holder of left has gone (right is only ever given while
\* left is held) and left's slot is 0 while right still has an intent.
C4_Witness ==
    /\ HoldersOf("left") = {}
    /\ HoldersOf("right") # {}
    /\ input_by_role["left"] = 0
    /\ input_by_role["right"] # 0

\* the frames the protocol does not define: no JSON, JSON that is no object,
\* an unknown type, a speed message whose delta is no JSON number
Unrecognized(frame) ==
    \/ frame.shape \in {"malformed", "nonobject"}
    \/ frame.shape = "object" /\ frame.type = "other"
    \/ frame.shape = "object" /\ frame.type = "speed" /\ frame.delta.kind # "num"

\* C5: an inbound frame that is malformed JSON or has an unrecognized shape
\* is ignored: match state, pending inputs and role map are unchanged, the
\* connection stays open and registered, and nothing is sent.
C5_UnrecognizedIgnored ==
    [][\A ws \in Conns, frame \in Frames :
          (Unrecognized(frame) /\ Receive(ws, frame))
             => UNCHANGED <<state, input_by_role, roles, clients, pc, sent>>]_vars

\* the intent of an input message: -1 up only, 1 down only, 0 otherwise
Intent(up, down) ==
    CASE up /\ ~down -> -1
      [] down /\ ~up -> 1
      [] OTHER       -> 0

\* the input messages, with every combination of the two keys
InputFrames == {frame \in Frames : frame.shape = "object" /\ frame.type = "input"}

\* C6: an input message from the holder of left or right sets only that
\* side's pending input, to the intent of the message; an input message from
\* a spectator changes no pending input; neither changes the match state.
\* (Handling an input message opens or closes no connection, runs no tick and
\* moves no controller target, so only the steps that leave pc, ticks and
\* ai_target_y alone can be such a step.)
C6_InputSetsOwnSlot ==
    [][(vars' # vars /\ pc' = pc /\ ticks' = ticks /\ ai_target_y' = ai_target_y) =>
          \A ws \in Conns, frame \in InputFrames :
             Receive(ws, frame)
                => /\ state' = state
                   /\ input_by_role' =
                         IF roles[ws] \in Sides
                         THEN [input_by_role EXCEPT
                                  ![roles[ws]] = Intent(frame.up, frame.down)]
                         ELSE input_by_role]_vars

\* C6 witness: both players have an intent pending and a spectator is
\* connected.
C6_Witness ==
    /\ input_by_role["left"] = -1
    /\ input_by_role["right"] = 1
    /\ \E c \in Conns : pc[c] = "open" /\ roles[c] = "spectator"

-----------------------------------------------------------------------------
(* Properties of the match, checked under SpecMatch.                       *)

\* Only Tick changes the tick budget: a step is a tick iff it changes it.
IsTick == ticks' # ticks
TicksRun == MatchTicks - ticks

\* C7: a reset message received while game_over is false leaves the match
\* state unchanged; received while game_over is true it restores every field
\* of the match state to its start-of-match value.
C7_ResetRestoresStart ==
    [][\A ws \in Conns, frame \in Frames :
          (frame.shape = "object" /\ frame.type = "reset" /\ Receive(ws, frame))
             => state' = IF state.game_over THEN GameStateInit ELSE state]_vars

\* C8: game_over is true exactly when a score has reached the win threshold;
\* then winner is the side whose score is 5 and otherwise winner is none;
\* neither score exceeds 5 and the two scores are never both 5.
C8_GameOverIffWon ==
    /\ state.game_over <=> (state.score_left >= WIN_SCORE
                            \/ state.score_right >= WIN_SCORE)
    /\ state.winner = IF state.score_left = WIN_SCORE THEN "left"
                      ELSE IF state.score_right = WIN_SCORE THEN "right"
                      ELSE "none"
    /\ state.score_left <= WIN_SCORE
    /\ state.score_right <= WIN_SCORE
    /\ ~(state.score_left = WIN_SCORE /\ state.score_right = WIN_SCORE)

\* C8 witness: the right side has just won the match 5 to 4.
C8_Witness ==
    /\ state.game_over
    /\ state.winner = "right"
    /\ state.score_right = WIN_SCORE
    /\ state.score_left = WIN_SCORE - 1

\* the ball of the current state after integration is at or beyond the
\* plane of `side` and its y is outside [paddle_y - ballSize, paddle_y +
\* paddleHeight], paddle_y being the paddle's position in this tick
MissesAt(side, paddle_y) ==
    LET x == state.ball.x + state.ball.vx
        y == state.ball.y + state.ball.vy
    IN  /\ IF side = "right" THEN x >= Fix(WIDTH - PADDLE_W - BALL_SIZE)
           ELSE x <= Fix(PADDLE_W)
        /\ (y < paddle_y - Fix(BALL_SIZE) \/ y > paddle_y + Fix(PADDLE_H))

\* C9: a tick of a running match in which the integrated ball is at or
\* beyond the right plane outside the right paddle's reach adds exactly 1 to
\* score_left and leaves score_right (symmetrically on the left); every
\* other tick leaves both scores.
C9_MissScoresOne ==
    [][IsTick =>
          IF ~state.game_over /\ MissesAt("right", state'.right.y)
          THEN /\ state'.score_left = state.score_left + 1
               /\ state'.score_right = state.score_right
          ELSE IF ~state.game_over /\ MissesAt("left", state'.left.y)
          THEN /\ state'.score_right = state.score_right + 1
               /\ state'.score_left = state.score_left
          ELSE /\ state'.score_left = state.score_left
               /\ state'.score_right = state.score_right]_vars

\* C9 witness: from 2-1 the right paddle has missed, the left has not.
C9_Witness ==
    /\ state.score_left = 3
    /\ state.score_right = 1
    /\ TicksRun >= 1

\* C10: a tick executed while game_over is true changes nothing in the
\* match state.
C10_GameOverTickIdle ==
    [][(IsTick /\ state.game_over) => state' = state]_vars

\* C10 witness: the match is over and more ticks have run than the clock
\* has counted since the start of the window, with an intent pending and a
\* controller target set.
C10_Witness ==
    /\ state.game_over
    /\ TicksRun > state.game_time - SnapTime
    /\ input_by_role["left"] # 0
    /\ ai_target_y["right"] # {}

-----------------------------------------------------------------------------
(* Properties of the controller assignment.                                *)

\* the sides held in the role map: the humans of _update_ai_assignment
Humans == {side \in Sides : HoldersOf(side) # {}}

\* C11: in mode auto the controller-driven side is right when exactly one
\* human holds a side and it is left, left when exactly one human holds a
\* side and it is right, and none when zero or two humans hold sides;
\* spectators do not count (checked under Spec, whose mode is auto).
C11_AutoAssignment ==
    ai_mode = "auto" =>
        ai_role = IF Humans = {"left"} THEN "right"
                  ELSE IF Humans = {"right"} THEN "left"
                  ELSE "none"

\* C11 witness: the only human holds right, a spectator is connected, and
\* the controller drives left.
C11_Witness ==
    /\ ai_mode = "auto"
    /\ Humans = {"right"}
    /\ HoldersOf("spectator") # {}
    /\ ai_role = "left"

\* C12: in mode on, in every reachable state, the state at server start
\* included, the controller-driven side is left when no connection holds
\* left, otherwise right when no connection holds right, otherwise none
\* (checked under SpecOn).
C12_OnAssignment ==
    ai_mode = "on" =>
        ai_role = IF "left" \notin Humans THEN "left"
                  ELSE IF "right" \notin Humans THEN "right"
                  ELSE "none"

\* the role map holds spectators and nobody else
SpectatorsOnly == Humans = {} /\ HoldersOf("spectator") # {}

\* C13: in mode on, whenever the only connected clients are spectators, no
\* side is controller-driven and no tick moves a paddle (checked under
\* SpecOn).
C13_SpectatorsOnlyNoController ==
    [][(ai_mode = "on" /\ SpectatorsOnly)
          => /\ ai_role = "none"
             /\ IsTick => /\ state'.left.y = state.left.y
                          /\ state'.right.y = state.right.y]_vars

-----------------------------------------------------------------------------
(* Properties of the oracle call, checked under SpecOracle.                *)

\* the outcomes of the exchange that the claim lists as failures: timeout,
\* transport error, bad status, a body that is not JSON, a JSON body of an
\* unexpected shape
ExchangeFailed(reply) ==
    \/ reply.exchange # "json"
    \/ reply.kind # "object"
    \/ /\ reply.choices # "content"
       /\ reply.message # "content"
       /\ reply.messages # "content"

\* C14: for every outcome of the oracle request the call returns without
\* raising; it returns the failure value when the exchange failed or the
\* reply holds no UP/DOWN/STAY token; a move it returns is -1, 0 or 1; and
\* the controller targets of both sides keep their values.
C14_OracleFailsSilently ==
    [][llm' # llm =>
          /\ llm'.result.outcome \in {"none", "move"}
          /\ llm'.result.move \in {-1, 0, 1}
          /\ ExchangeFailed(llm.reply) => llm'.result.outcome = "none"
          /\ ai_target_y' = ai_target_y]_vars

-----------------------------------------------------------------------------
(* Properties of the game loop, checked under SpecLive and SpecLoop.       *)

\* the step in which the game loop runs update
UpdateStep == gl = "update" /\ gl' = "broadcast"

\* C15: physics advancement is not interleaved with another writer: the
\* step that runs update finds the lock free and leaves it free, computes
\* the new match state from the pending inputs, the controller assignment
\* and the controller target as they are when it starts, and writes none of
\* them; and no step writes any of these or the match state while the lock
\* is held.
C15_UpdateNotInterleaved ==
    [][/\ UpdateStep
            => /\ lock = "free"
               /\ lock' = "free"
               /\ UNCHANGED <<input_by_role, ai_role, ai_target_y>>
               /\ \E jitter \in Jitters :
                     state' = Update(state, input_by_role, ai_role,
                                     ai_target_y, jitter)
       /\ lock # "free"
            => UNCHANGED <<input_by_role, ai_role, ai_target_y, state>>]_vars

\* C15 witness: update has just run with a pending input it applied, after
\* a speed command and a controller pass had written.
C15_Witness ==
    /\ gl = "broadcast"
    /\ input_by_role["left"] = 1
    /\ state.left.y > CentreY
    /\ state.rally_speed_locked
    /\ ai_target_y["right"] # {}

\* C16: under fair scheduling every iteration of the game loop that starts
\* runs update, broadcasts, sleeps and is followed by the next iteration,
\* for every interleaving of messages, connects, disconnects and controller
\* passes; the lock is free in every state in which tasks wait, and the
\* loop never ends.  (LoopTicks iterations are followed.)
C16_TickLoopRuns ==
    /\ [](lock = "free" /\ gl # "dead")
    /\ \A n \in 1..LoopTicks :
          (ticks = n /\ gl = "update") ~> (ticks = n - 1 /\ gl = "update")

\* C16 witness: every iteration has completed although a dead connection is
\* still in the client set and a speed command was handled.
C16_Witness ==
    /\ ticks = 0
    /\ gl = "update"
    /\ state.game_time = LoopTicks
    /\ Dead(clients) # {}
    /\ state.rally_speed_locked

\* C17: in every broadcast a send that fails for one client neither stops
\* the loop nor keeps the state message from another client: every client
\* of the client set whose own send succeeds gets exactly one state message
\* in the iteration (checked under SpecLoop).
C17_BroadcastReachesOthers ==
    [][(gl = "broadcast" /\ gl' # "broadcast")
          => /\ gl' = "sleep"
             /\ \A c \in clients :
                   c \notin inbox'.failed => inbox'.got[c] = 1
             /\ \A c \in Conns \ clients : inbox'.got[c] = 0]_vars

\* C17 witness: the broadcast is over, the send to one client failed and
\* another client got its state message.
C17_Witness ==
    /\ gl = "sleep"
    /\ \E c1 \in clients, c2 \in clients :
          /\ c1 \in inbox.failed
          /\ c2 \notin inbox.failed
          /\ inbox.got[c2] = 1

-----------------------------------------------------------------------------
(* Properties of the speed rules.                                          *)

\* the speed a command starts from, and the speed it asks for
StartSpeed == IF state.rally_speed_locked THEN state.rally_speed
              ELSE state.base_speed
Clamped(delta) == Max(1000, Min(15000, StartSpeed + delta))

\* the ball of st moves in the direction of the ball of the current state:
\* the velocities are parallel within the grid's resolution and point the
\* same way
SameDirection(st) ==
    LET vx == state.ball.vx
        vy == state.ball.vy
        wx == st.ball.vx
        wy == st.ball.vy
    IN  /\ Abs(vx * wy - vy * wx) <= (Hypot(vx, vy) * Hypot(wx, wy)) \div 500
        /\ vx * wx + vy * wy > 0

\* C18: a speed command with numeric delta computes new = clamp(start +
\* delta, 1, 15), start being rally speed if locked and base speed
\* otherwise; if new differs from start then afterwards rally speed = new,
\* rally speed is locked and the ball's velocity has magnitude new (within
\* 0.2 %, the resolution of the fixed-point grid) with its direction
\* unchanged, nothing else of the match state changing; if new equals start
\* the command changes nothing (checked under SpecSpeed).
C18_SpeedCommandClamps ==
    [][\A ws \in Conns, frame \in SpeedFrames :
          Receive(ws, frame) =>
             IF Clamped(frame.delta.val) = StartSpeed
             THEN state' = state
             ELSE /\ state'.rally_speed = Clamped(frame.delta.val)
                  /\ state'.rally_speed \in 1000..15000
                  /\ state'.rally_speed_locked
                  /\ Abs(Hypot(state'.ball.vx, state'.ball.vy)
                            - Clamped(frame.delta.val))
                        <= Clamped(frame.delta.val) \div 500
                  /\ SameDirection(state')
                  /\ state' = [state EXCEPT
                                  !.rally_speed = state'.rally_speed,
                                  !.rally_speed_locked = TRUE,
                                  !.ball.vx = state'.ball.vx,
                                  !.ball.vy = state'.ball.vy]]_vars

\* C18 witness: the rally speed was first clamped to 1.0 and then raised
\* from there to the ceiling 15.0, the ball keeping its leftward course.
C18_Witness ==
    /\ speeds = SpeedCmds - 2
    /\ state.rally_speed = 15000
    /\ state.rally_speed_locked
    /\ state.ball.vx < 0
    /\ state.ball.vx # -15000

\* the step is a reset message received while the game is over
HonouredReset ==
    /\ state.game_over
    /\ \E ws \in Conns :
          Receive(ws, Frame("object", "reset", FALSE, FALSE, NoDelta))

\* C19: in every reachable state base speed = max(1.0, 5.0 + 0.001 *
\* elapsed ticks); elapsed ticks increase by exactly 1 in every tick run
\* while game_over is false, are set to 0 by an honoured reset and are
\* unchanged by every other event, so base speed never decreases between
\* resets (checked under SpecMatch).
C19_BaseSpeedFollowsClock ==
    /\ [](state.base_speed = Max(1000, 5000 + state.game_time))
    /\ [][/\ state'.game_time =
                (IF IsTick /\ ~state.game_over THEN state.game_time + 1
                 ELSE IF HonouredReset THEN 0
                 ELSE state.game_time)
          /\ ~HonouredReset => state'.base_speed >= state.base_speed]_vars

\* C19 witness: a tick ended the match, a reset was honoured, and the next
\* tick has counted 1 again.
C19_Witness ==
    /\ state.game_time = 1
    /\ state.base_speed = 5001
    /\ ticks = 0

\* C20: after a miss that does not end the game the newly served ball
\* travels away from the side that missed: rightward when the left side
\* missed (score_right grew), leftward when the right side missed, for every
\* jitter (checked under SpecMatch).
C20_ServeAwayFromMiss ==
    [][(IsTick /\ ~state'.game_over)
          => /\ state'.score_right > state.score_right => state'.ball.vx > 0
             /\ state'.score_left > state.score_left => state'.ball.vx < 0]_vars

-----------------------------------------------------------------------------
(* Properties of the serve and of the rally speed, checked under SpecMatch. *)

\* the side that missed in this step, if a point was scored in it
MissedSide ==
    IF state'.score_right > state.score_right THEN "left"
    ELSE IF state'.score_left > state.score_left THEN "right"
    ELSE "none"

\* the greatest jitter, pi/12, in milliradians
MaxJitter == 262

\* the ball stands at court centre with no pending hit, and its velocity is
\* that of magnitude `speed` at an angle within MaxJitter of base_angle
ServedBall(ball, base_angle, speed) ==
    /\ ball.x = Fix(WIDTH - BALL_SIZE) \div 2
    /\ ball.y = Fix(HEIGHT - BALL_SIZE) \div 2
    /\ ~ball.hit
    /\ \E jitter \in -MaxJitter..MaxJitter :
          /\ ball.vx = FMul(speed, Cos(base_angle + jitter))
          /\ ball.vy = FMul(speed, Sin(base_angle + jitter))

\* C21: after a miss that does not end the game the rally-speed lock is
\* cleared, rally speed equals base speed, and a new ball stands at court
\* centre with no pending hit and a velocity of magnitude base speed at angle
\* baseAngle + jitter, baseAngle being pi if the left side missed and 0
\* otherwise, jitter in [-pi/12, pi/12]; after a miss that ends the game the
\* ball stays where the tick's integration put it.
C21_ServeAfterMiss ==
    [][(IsTick /\ MissedSide # "none")
          => IF ~state'.game_over
             THEN /\ ~state'.rally_speed_locked
                  /\ state'.rally_speed = state'.base_speed
                  /\ ServedBall(state'.ball,
                                IF MissedSide = "left" THEN PI ELSE 0,
                                state'.base_speed)
             ELSE /\ state'.ball.x = state.ball.x + state.ball.vx
                  /\ state'.ball.y = state.ball.y + state.ball.vy
                  /\ state'.ball.vx = state.ball.vx
                  /\ Abs(state'.ball.vy) = Abs(state.ball.vy)]_vars

\* C21 witness: a point was scored from 2-1 in a rally whose speed a speed
\* command had locked, and the serve has cleared the lock.
C21_Witness ==
    /\ state.score_left + state.score_right = 4
    /\ speeds = 0
    /\ ~state.rally_speed_locked
    /\ state.ball.x = Fix(WIDTH - BALL_SIZE) \div 2
    /\ state.ball.hit = FALSE
    /\ TicksRun = 1

\* C22: in every reachable state, if the rally speed is not locked then the
\* rally speed equals the base speed (ticks, scores, speed commands and
\* resets all keep it so).
C22_UnlockedRallyIsBase ==
    ~state.rally_speed_locked => state.rally_speed = state.base_speed

\* C22 witness: a rally whose speed was locked ended the match, and the
\* reset that followed has cleared the lock.
C22_Witness ==
    /\ state.game_time = 0
    /\ speeds = 0
    /\ ~state.rally_speed_locked
    /\ state.rally_speed = 5000
    /\ TicksRun >= 1

-----------------------------------------------------------------------------
(* Properties of paddle movement, checked under SpecPaddle.                *)

\* clamp(target - y, -controllerSpeed, +controllerSpeed); no step when no
\* target has been computed
ControllerStep(side) ==
    IF ai_target_y[side] = {} THEN 0
    ELSE LET target == CHOOSE t \in ai_target_y[side] : TRUE
         IN  Max(-Fix(AI_PADDLE_SPEED),
                 Min(Fix(AI_PADDLE_SPEED), target - state[side].y))

\* this tick reflects the ball off the paddle of `side`
ReflectsOff(side) ==
    /\ ~state.ball.hit
    /\ state'.ball.hit
    /\ IF side = "left" THEN state.ball.x + state.ball.vx <= Fix(PADDLE_W)
       ELSE state.ball.x + state.ball.vx >= Fix(WIDTH - PADDLE_W - BALL_SIZE)

\* the reflection angle of a hit at ball_center_y on a paddle at paddle_y
\* without a spin term
AngleWithoutSpin(ball_center_y, paddle_y) ==
    LET hit_pos == Max(0, Min(1000, RDiv(ball_center_y - paddle_y, PADDLE_H)))
    IN  RDiv((hit_pos - 500) * 2 * PI, 3000)

\* C23: in a tick of a running match a controller-driven side's paddle moves
\* by clamp(target - y, -controllerSpeed, +controllerSpeed) when a target
\* exists and not at all when none does, whatever that side's pending input,
\* and its recorded move is 0, so that a hit on it leaves at the angle of the
\* hit position alone; the paddle of a side that is not controller-driven
\* moves by pendingInput * paddleSpeed, held within the court; both paddles
\* end the tick within [0, courtHeight - paddleHeight].
C23_ControllerMovesPaddle ==
    [][(IsTick /\ ~state.game_over)
          => \A side \in Sides :
                /\ IF ai_role = side
                   THEN /\ state'[side].y = state[side].y + ControllerStep(side)
                        /\ state'[side].move = 0
                        /\ ReflectsOff(side) =>
                              LET angle ==
                                    (IF side = "left" THEN 0 ELSE PI)
                                    + AngleWithoutSpin(
                                         state'.ball.y + Fix(BALL_SIZE) \div 2,
                                         state'[side].y)
                              IN  /\ state'.ball.vx =
                                        FMul(state'.rally_speed, Cos(angle))
                                  /\ state'.ball.vy =
                                        FMul(state'.rally_speed, Sin(angle))
                   ELSE state'[side].y =
                           Max(0, Min(Fix(HEIGHT - PADDLE_H),
                                      state[side].y
                                      + input_by_role[side] * Fix(PADDLE_SPEED)))
                /\ state'[side].y >= 0
                /\ state'[side].y <= Fix(HEIGHT - PADDLE_H)]_vars

\* C23 witness: the controller drives the right side; its paddle has made a
\* full step up toward its target and the ball has been reflected off it,
\* while the left player, at the top edge, was holding `up`.
C23_Witness ==
    /\ ai_role = "right"
    /\ ai_target_y["right"] # {}
    /\ state.right.y = CentreY - 4000 - Fix(AI_PADDLE_SPEED)
    /\ state.ball.hit
    /\ state.ball.vx < 0
    /\ state.left.y = 0
    /\ input_by_role["left"] = -1
    /\ ticks < PaddleTicks

\* C25: pending input is last-write-wins and not queued.  Every input
\* message from the holder of a side leaves that side's slot holding the
\* intent of that message alone, whatever the slot held; a tick moves the
\* paddle of a side that is not controller-driven by the slot's intent and
\* leaves both slots as they are; and a slot changes only by an input message
\* from its side's holder or, to 0, by that holder's disconnect.
C25_LastInputWins ==
    [][vars' # vars =>
          /\ \A ws \in Conns, frame \in InputFrames :
                (Receive(ws, frame) /\ roles[ws] \in Sides)
                   => input_by_role'[roles[ws]] = Intent(frame.up, frame.down)
          /\ IsTick =>
                /\ input_by_role' = input_by_role
                /\ \A side \in Sides :
                      (~state.game_over /\ ai_role # side)
                         => state'[side].y =
                               Max(0, Min(Fix(HEIGHT - PADDLE_H),
                                          state[side].y + input_by_role[side]
                                                          * Fix(PADDLE_SPEED)))
          /\ \A side \in Sides :
                input_by_role'[side] # input_by_role[side]
                   => \/ \E ws \in HoldersOf(side), frame \in InputFrames :
                            Receive(ws, frame)
                      \/ /\ HoldersOf(side) # {}
                         /\ \A c \in DOMAIN roles' : roles'[c] # side
                         /\ input_by_role'[side] = 0]_vars

\* C25 witness: two ticks have moved the left paddle down, the second on the
\* intent the first had used, after the left player had first asked for `up`;
\* the right player moved down from the top edge in the first tick and then
\* disconnected, which zeroed the right slot.
C25_Witness ==
    /\ ticks = PaddleTicks - 2
    /\ input_by_role["left"] = 1
    /\ state.left.y = CentreY - 4000 + 2 * Fix(PADDLE_SPEED)
    /\ pc[2] = "none"
    /\ input_by_role["right"] = 0
    /\ state.right.y = Fix(PADDLE_SPEED)
    /\ ai_target_y["right"] = {}

\* the ball of the current state is moving toward `side`
MovingToward(side) ==
    IF side = "left" THEN state.ball.vx < 0 ELSE state.ball.vx > 0

\* C26: a controller-loop step writes only the target of the side that is
\* controller-driven: it leaves the match state, the pending inputs, the role
\* map and the other side's target, and it writes nothing when no side is
\* controller-driven or the game is over; the value written lies in
\* [0, courtHeight - paddleHeight] and is the centred paddle position when
\* the ball is not moving toward the controlled side.  No other step writes
\* a target.
C26_ControllerWritesOwnTarget ==
    [][(AiStep \/ ai_target_y' # ai_target_y)
          => /\ UNCHANGED <<state, input_by_role, roles, clients, ai_role>>
             /\ \A side \in Sides :
                   side # ai_role => ai_target_y'[side] = ai_target_y[side]
             /\ (ai_role = "none" \/ state.game_over)
                   => ai_target_y' = ai_target_y
             /\ (ai_role \in Sides /\ ~state.game_over)
                   => /\ Cardinality(ai_target_y'[ai_role]) = 1
                      /\ \A target \in ai_target_y'[ai_role] :
                            /\ target >= 0
                            /\ target <= Fix(HEIGHT - PADDLE_H)
                            /\ ~MovingToward(ai_role)
                                  => target = Fix(HEIGHT - PADDLE_H) \div 2]_vars

\* C26 witness: the left player has left, the controller drives the left
\* side and has centred its target, the ball moving right; the right side's
\* target is unwritten and the right player's intent stands.
C26_Witness ==
    /\ ai_role = "left"
    /\ ai_target_y["left"] = {Fix(HEIGHT - PADDLE_H) \div 2}
    /\ ai_target_y["right"] = {}
    /\ input_by_role["right"] = 1
    /\ state.ball.vx > 0
    /\ ~state.game_over

-----------------------------------------------------------------------------
(* Properties of a paddle contact, checked under SpecBand.                 *)

\* the ball's x after this tick's integration
IntegratedX == state.ball.x + state.ball.vx

\* this tick finds the ball strictly between the two collision planes
FoundBetweenPlanes ==
    /\ IntegratedX > Fix(PADDLE_W)
    /\ IntegratedX < Fix(WIDTH - PADDLE_W - BALL_SIZE)

\* C24: a paddle contact resolves at most one reflection: a tick that starts
\* with the pending-hit flag set and does not find the ball strictly between
\* the two collision planes leaves the ball's velocity as the integration
\* left it, and the flag is cleared in exactly the ticks that find the ball
\* strictly between the planes.
C24_OneReflectionPerContact ==
    [][(IsTick /\ ~state.game_over /\ state.ball.hit)
          => /\ ~FoundBetweenPlanes
                  => /\ state'.ball.vx = state.ball.vx
                     /\ Abs(state'.ball.vy) = Abs(state.ball.vy)
             /\ ~state'.ball.hit <=> FoundBetweenPlanes]_vars

\* C27: once a tick has reflected the ball off a paddle, a following tick
\* that finds the ball still at or beyond that paddle's plane scores no point
\* against that paddle's side, whatever the paddle has done in between.
C27_NoMissAfterReflection ==
    [][(IsTick /\ ~state.game_over /\ state.ball.hit)
          => /\ IntegratedX <= Fix(PADDLE_W)
                  => state'.score_right = state.score_right
             /\ IntegratedX >= Fix(WIDTH - PADDLE_W - BALL_SIZE)
                  => state'.score_left = state.score_left]_vars

====
